---- MODULE Spec2Model ----
(***************************************************************************)
(* Turbulent CI: the per-repository Monitor loop (CiRunner), the fail-fast *)
(* command executor (run_commands), the shared Store (GlobalState behind   *)
(* Arc<Mutex<..>>) and the read-only Status API handlers.                  *)
(*                                                                         *)
(* A String built with push_str is a sequence of pieces; pushing the empty *)
(* string adds nothing.  Option<String> is the string "None" or a hash.    *)
(* BuildResult.duration_ms, repo_path and project_type, and RepoInfo.path  *)
(* and project_type, are copies of immutable configuration and are left    *)
(* out of the records.                                                     *)
(***************************************************************************)
EXTENDS Integers, Sequences, FiniteSets, TLC

(***************************************************************************)
(* Bounds and inputs                                                       *)
(***************************************************************************)
\* builds the Monitors may start altogether before no further new commit is
\* shown to any of them
MaxBuilds == 2
\* number of append_build calls the Store driver of SpecCaps makes
MaxAppends == 102
\* number of Store operations the driver of SpecStore makes
MaxOps == 3

\* "Keep only last 50 builds per repository"
RepoBuildsCap == 50
\* "Keep only last 100 recent builds globally"
RecentBuildsCap == 100

\* Repository ids (Uuid) of the configured repositories; the RepositoryManager
\* keeps them in a map keyed by id, so every id is configured once.
Repos == {"r1", "r2"}
\* The configuration of each repository: its display name and command list.
RepoConfig ==
    [r \in Repos |->
        IF r = "r1" THEN [id |-> r, name |-> "alpha", commands |-> <<"check", "test">>]
                    ELSE [id |-> r, name |-> "beta", commands |-> << >>]]
\* A repository id no Monitor was started for.
UnknownRepo == "r0"

\* Commit hashes `git rev-parse HEAD` may print, branches `git branch
\* --show-current` may print, and the errors either may end with.
Commits == {"c1", "c2"}
Branches == {"main"}
GitErrors == {"Failed to get git commit"}
None == "None"

\* What one build command can do: run and succeed, run and exit non-zero
\* (writing to stderr), or fail to spawn.
CommandResults ==
    { [kind |-> "Ok", stdout |-> "out", stderr |-> "", success |-> TRUE, e |-> ""],
      [kind |-> "Ok", stdout |-> "", stderr |-> "err", success |-> FALSE, e |-> ""],
      [kind |-> "Err", stdout |-> "", stderr |-> "", success |-> FALSE, e |-> "No such file"] }

Free == "free"
Api == "api"

(***************************************************************************)
(* models.rs: GlobalState                                                  *)
(***************************************************************************)
\* Vec::insert(0, x)
InsertFront(v, x) == <<x>> \o v
\* faulty variant: the newest entries are dropped, not the oldest
Truncate_Newest(v, n) == IF Len(v) > n THEN SubSeq(v, Len(v) - n + 1, Len(v)) ELSE v

\* Vec::truncate(n)
Truncate(v, n) == IF Len(v) > n THEN SubSeq(v, 1, n) ELSE v

\* GlobalState::new
GlobalStateNew == [repositories |-> [x \in {} |-> x], recent_builds |-> << >>]

\* HashMap::insert(k, v): the entry for k is created or replaced
MapInsert(m, k, v) == [x \in (DOMAIN m) \cup {k} |-> IF x = k THEN v ELSE m[x]]

\* faulty variant: the repository is registered as Idle straight away
add_repository_state_Idle(state, repository) ==
    LET repo_info == [branch |-> "unknown", last_commit |-> "unknown",
                      commands |-> repository.commands]
        rs == [repository |-> repository, builds |-> << >>,
               current_status |-> "Idle", repo_info |-> repo_info]
    IN [state EXCEPT !.repositories = MapInsert(state.repositories, repository.id, rs)]

\* GlobalState::add_repository_state
add_repository_state(state, repository) ==
    LET repo_info == [branch |-> "unknown", last_commit |-> "unknown",
                      commands |-> repository.commands]
        rs == [repository |-> repository, builds |-> << >>,
               current_status |-> "Starting...", repo_info |-> repo_info]
    IN [state EXCEPT !.repositories = MapInsert(state.repositories, repository.id, rs)]

\* faulty variant: the result is not put into the repository's history
add_build_repo_Skipped(state, build) == state

\* faulty variant: the repository's history is never cut
add_build_repo_Uncapped(state, build) ==
    IF build.repository_id \in DOMAIN state.repositories
    THEN [state EXCEPT !.repositories[build.repository_id].builds = InsertFront(@, build)]
    ELSE state

\* GlobalState::add_build, first half: the repository's own history
add_build_repo(state, build) ==
    IF build.repository_id \in DOMAIN state.repositories
    THEN [state EXCEPT !.repositories[build.repository_id].builds =
              Truncate(InsertFront(@, build), RepoBuildsCap)]
    ELSE state

\* faulty variant: the feed is kept ordered by the time the builds started
add_build_recent_ByStartTime(state, build) ==
    LET later == SelectSeq(state.recent_builds, LAMBDA b : b.timestamp > build.timestamp)
        earlier == SelectSeq(state.recent_builds, LAMBDA b : b.timestamp <= build.timestamp)
    IN [state EXCEPT !.recent_builds =
            Truncate(later \o <<build>> \o earlier, RecentBuildsCap)]

\* faulty variant: an entry with the same sequence number is replaced
add_build_recent_DedupById(state, build) ==
    [state EXCEPT !.recent_builds =
        Truncate(InsertFront(SelectSeq(state.recent_builds, LAMBDA b : b.id # build.id),
                             build), RecentBuildsCap)]

\* GlobalState::add_build, second half: the global recent builds
add_build_recent(state, build) ==
    [state EXCEPT !.recent_builds = Truncate(InsertFront(@, build), RecentBuildsCap)]

\* faulty variant: the lists are kept in sync, a result evicted from its
\* repository's history is taken out of the recent builds as well
add_build_Synced(state, build) ==
    LET added == add_build_recent(add_build_repo(state, build), build)
        Kept(b) == \E i \in DOMAIN added.repositories[b.repository_id].builds :
                       added.repositories[b.repository_id].builds[i] = b
    IN [added EXCEPT !.recent_builds = SelectSeq(added.recent_builds, Kept)]

\* GlobalState::add_build
add_build(state, build) == add_build_recent(add_build_repo(state, build), build)

\* faulty variant: the status is written to every repository of the map
update_repository_status_AllRepos(state, repo_id, status) ==
    IF repo_id \in DOMAIN state.repositories
    THEN [state EXCEPT !.repositories =
              [k \in DOMAIN state.repositories |->
                  [state.repositories[k] EXCEPT !.current_status = status]]]
    ELSE state

\* GlobalState::update_repository_status
update_repository_status(state, repo_id, status) ==
    IF repo_id \in DOMAIN state.repositories
    THEN [state EXCEPT !.repositories[repo_id].current_status = status]
    ELSE state

\* faulty variant: only the commit is stored, the branch keeps its old value
update_repository_info_CommitOnly(state, repo_id, branch, commit) ==
    IF repo_id \in DOMAIN state.repositories
    THEN [state EXCEPT !.repositories[repo_id].repo_info.last_commit = commit]
    ELSE state

\* GlobalState::update_repository_info
update_repository_info(state, repo_id, branch, commit) ==
    IF repo_id \in DOMAIN state.repositories
    THEN [state EXCEPT !.repositories[repo_id].repo_info.branch = branch,
                       !.repositories[repo_id].repo_info.last_commit = commit]
    ELSE state

(***************************************************************************)
(* State                                                                   *)
(***************************************************************************)
VARIABLES
    global_state,    \* the GlobalState inside Arc<Mutex<..>>
    lock,            \* the holder of the Mutex: a repository id (its Monitor), Api or Free
    pc,              \* pc[r]: where the thread of repository r is in CiRunner::new / run
    last_commit,     \* CiRunner.last_commit
    build_counter,   \* CiRunner.build_counter
    current_commit,  \* check_and_build: current_commit
    err,             \* the error check_and_build returned to run
    start_time,      \* run_commands: start_time
    cmd_idx,         \* run_commands: position of the for loop in repository.commands
    all_output,      \* run_commands: all_output
    success,         \* run_commands: success
    result,          \* check_and_build: result
    ext,             \* ext[r]: the external process the thread of r waits for
    cmd_log,         \* history: the commands the current build spawned, with what each did
    clock,           \* SystemTime::now(), counted in readings
    api_pc,          \* where the API handler is
    api_req,         \* the request it serves
    response,        \* the payload of its last reply
    appended,        \* history: every BuildResult handed to add_build, in call order
    op               \* history: the last Store operation a Store driver made

monitor_vars == <<pc, last_commit, build_counter, current_commit, err, start_time,
                  cmd_idx, all_output, success, result, ext, cmd_log, clock>>
api_vars == <<api_pc, api_req, response>>
vars == <<global_state, lock, monitor_vars, api_vars, appended, op>>

NoResult == [id |-> 0, repository_id |-> UnknownRepo, repository_name |-> "",
             success |-> FALSE, output |-> << >>, timestamp |-> 0, commit_hash |-> None]
NoOp == [name |-> "none", repo |-> UnknownRepo, count |-> 0, schedule |-> << >>, run |-> 1]
NoReq == [kind |-> "none", name |-> "", id |-> 0]
NoResponse == [kind |-> "none"]

\* start_daemon: a fresh GlobalState, one thread per configured repository,
\* each about to run CiRunner::new, and the web server waiting for requests.
Init ==
    /\ global_state = GlobalStateNew
    /\ lock = Free
    /\ pc = [r \in Repos |-> "new"]
    /\ last_commit = [r \in Repos |-> None]
    /\ build_counter = [r \in Repos |-> 0]
    /\ current_commit = [r \in Repos |-> None]
    /\ err = [r \in Repos |-> ""]
    /\ start_time = [r \in Repos |-> 0]
    /\ cmd_idx = [r \in Repos |-> 1]
    /\ all_output = [r \in Repos |-> << >>]
    /\ success = [r \in Repos |-> TRUE]
    /\ result = [r \in Repos |-> NoResult]
    /\ ext = [r \in Repos |-> "none"]
    /\ cmd_log = [r \in Repos |-> << >>]
    /\ clock = 1
    /\ api_pc = "idle"
    /\ api_req = NoReq
    /\ response = NoResponse
    /\ appended = << >>
    /\ op = NoOp

(***************************************************************************)
(* The Mutex                                                               *)
(***************************************************************************)
\* Mutex::lock: blocks until the lock is free
Acquire(who) == lock = Free /\ lock' = who
\* the MutexGuard is dropped at the end of its scope
Release(who) == lock = who /\ lock' = Free
\* faulty variant: the guard is a temporary, dropped at the end of the statement
Hold_Dropped(who) == lock = who /\ lock' = Free

\* the guard stays alive
Hold(who) == lock = who /\ UNCHANGED lock

(***************************************************************************)
(* ci_runner.rs: CiRunner                                                  *)
(***************************************************************************)
\* String::push_str / push: an empty piece leaves the string as it is
Push(str, kind, cmd, text) ==
    IF text = "" THEN str ELSE Append(str, [kind |-> kind, cmd |-> cmd, text |-> text])

\* faulty variant: a failed command does not break the loop
loop_body_NoBreak(out, ok, cmd, res) ==
    IF res.kind = "Ok"
    THEN [all_output |-> Append(out, [kind |-> "header", cmd |-> cmd, text |-> "=== {} ===\n"]),
          success |-> ok /\ res.success, break |-> FALSE]
    ELSE [all_output |-> Append(out, [kind |-> "exec_error", cmd |-> cmd,
                                     text |-> "Failed to execute {}: {}\n"]),
          success |-> FALSE, break |-> TRUE]

\* faulty variant: a command that cannot be spawned leaves no trace in the
\* transcript
loop_body_SpawnErrSilent(out, ok, cmd, res) ==
    IF res.kind = "Ok"
    THEN LET o1 == Push(out, "header", cmd, "=== {} ===\n")
             o2 == Push(o1, "stdout", cmd, res.stdout)
             o3 == IF res.stderr # ""
                   THEN Push(Push(o2, "stderr_label", cmd, "STDERR:\n"), "stderr", cmd, res.stderr)
                   ELSE o2
             o4 == Push(o3, "newline", cmd, "\n")
         IN IF ~res.success
            THEN [all_output |-> o4, success |-> FALSE, break |-> TRUE]
            ELSE [all_output |-> o4, success |-> ok, break |-> FALSE]
    ELSE [all_output |-> out, success |-> FALSE, break |-> TRUE]

\* faulty variant: a command that cannot be spawned is noted in the
\* transcript but does not fail the build
loop_body_SpawnErrNotFailing(out, ok, cmd, res) ==
    IF res.kind = "Ok"
    THEN LET o1 == Push(out, "header", cmd, "=== {} ===\n")
             o2 == Push(o1, "stdout", cmd, res.stdout)
             o3 == IF res.stderr # ""
                   THEN Push(Push(o2, "stderr_label", cmd, "STDERR:\n"), "stderr", cmd, res.stderr)
                   ELSE o2
             o4 == Push(o3, "newline", cmd, "\n")
         IN IF ~res.success
            THEN [all_output |-> o4, success |-> FALSE, break |-> TRUE]
            ELSE [all_output |-> o4, success |-> ok, break |-> FALSE]
    ELSE [all_output |-> Push(out, "exec_error", cmd, "Failed to execute {}: {}\n"),
          success |-> ok, break |-> TRUE]

\* run_commands, the body of the for loop for one command, given what
\* execute_command returned: the new all_output and success, and whether the
\* loop breaks.
loop_body(out, ok, cmd, res) ==
    IF res.kind = "Ok"
    THEN LET o1 == Push(out, "header", cmd, "=== {} ===\n")
             o2 == Push(o1, "stdout", cmd, res.stdout)
             o3 == IF res.stderr # ""
                   THEN Push(Push(o2, "stderr_label", cmd, "STDERR:\n"), "stderr", cmd, res.stderr)
                   ELSE o2
             o4 == Push(o3, "newline", cmd, "\n")
         IN IF ~res.success
            THEN [all_output |-> o4, success |-> FALSE, break |-> TRUE]
            ELSE [all_output |-> o4, success |-> ok, break |-> FALSE]
    ELSE [all_output |-> Push(out, "exec_error", cmd, "Failed to execute {}: {}\n"),
          success |-> FALSE, break |-> TRUE]

\* faulty variant: the first observation is taken for "no changes" as well
NoChanges_FirstToo(last, current) == last = None \/ last = current

\* check_and_build: "No changes", the early return
NoChanges(last, current) == last # None /\ last = current

\* faulty variant: the sequence number is drawn from one counter for all
\* repositories
BuildResult_GlobalId(r, out, ok) ==
    [id |-> start_time[r] + 1, repository_id |-> RepoConfig[r].id,
     repository_name |-> RepoConfig[r].name, success |-> ok, output |-> out,
     timestamp |-> start_time[r], commit_hash |-> current_commit[r]]

\* faulty variant: a build that produced no output counts as failed
BuildResult_NoOutputFails(r, out, ok) ==
    [id |-> build_counter[r], repository_id |-> RepoConfig[r].id,
     repository_name |-> RepoConfig[r].name, success |-> ok /\ out # << >>, output |-> out,
     timestamp |-> start_time[r], commit_hash |-> current_commit[r]]

\* run_commands: the BuildResult it returns when the for loop is left
BuildResult(r, out, ok) ==
    [id |-> build_counter[r], repository_id |-> RepoConfig[r].id,
     repository_name |-> RepoConfig[r].name, success |-> ok, output |-> out,
     timestamp |-> start_time[r], commit_hash |-> current_commit[r]]

\* the for loop is left by `break` or after the last command
LoopLeft(r, idx, step) == step.break \/ idx >= Len(RepoConfig[r].commands)

\* faulty variant: the status does not look at the result
ResultStatus_AlwaysPassing(res) == "Passing"

\* check_and_build: the status written after the build
ResultStatus(res) == IF res.success THEN "Passing" ELSE "Failed"

\* faulty variant: the message is left out of the status
ErrorStatus_NoMessage(e) == "Error"

\* run: format!("Error: {}", e)
ErrorStatus(e) == CASE e = "Failed to get git commit" -> "Error: Failed to get git commit"

Goto(r, label) == pc' = [pc EXCEPT ![r] = label]

\* check_and_build returns after a build: the locals of run_commands and the
\* result are gone
Return(r) ==
    /\ start_time' = [start_time EXCEPT ![r] = 0]
    /\ cmd_idx' = [cmd_idx EXCEPT ![r] = 1]
    /\ all_output' = [all_output EXCEPT ![r] = << >>]
    /\ success' = [success EXCEPT ![r] = TRUE]
    /\ result' = [result EXCEPT ![r] = NoResult]
    /\ cmd_log' = [cmd_log EXCEPT ![r] = << >>]

\* CiRunner::new, `global_state.lock().unwrap()`
new_lock(r) ==
    /\ pc[r] = "new"
    /\ Acquire(r)
    /\ Goto(r, "new_register")
    /\ UNCHANGED <<global_state, last_commit, build_counter, current_commit, err, start_time,
                   cmd_idx, all_output, success, result, ext, cmd_log, clock, api_vars,
                   appended, op>>

\* CiRunner::new, add_repository_state inside the block, then the runner is built
new_register(r) ==
    /\ pc[r] = "new_register"
    /\ global_state' = add_repository_state(global_state, RepoConfig[r])
    /\ Release(r)
    /\ last_commit' = [last_commit EXCEPT ![r] = None]
    /\ build_counter' = [build_counter EXCEPT ![r] = 0]
    /\ Goto(r, "run")
    /\ UNCHANGED <<current_commit, err, start_time, cmd_idx, all_output, success, result,
                   ext, cmd_log, clock, api_vars, appended, op>>

\* run, "Initialize status": the lock
run_lock(r) ==
    /\ pc[r] = "run"
    /\ Acquire(r)
    /\ Goto(r, "run_idle")
    /\ UNCHANGED <<global_state, last_commit, build_counter, current_commit, err, start_time,
                   cmd_idx, all_output, success, result, ext, cmd_log, clock, api_vars,
                   appended, op>>

\* run, "Initialize status": status Idle
run_idle(r) ==
    /\ pc[r] = "run_idle"
    /\ global_state' = update_repository_status(global_state, RepoConfig[r].id, "Idle")
    /\ Release(r)
    /\ Goto(r, "check_and_build")
    /\ UNCHANGED <<last_commit, build_counter, current_commit, err, start_time, cmd_idx,
                   all_output, success, result, ext, cmd_log, clock, api_vars, appended, op>>

\* get_latest_commit: `git rev-parse HEAD` is started
get_latest_commit_spawn(r) ==
    /\ pc[r] = "check_and_build"
    /\ ext' = [ext EXCEPT ![r] = "git rev-parse"]
    /\ Goto(r, "get_latest_commit")
    /\ UNCHANGED <<global_state, lock, last_commit, build_counter, current_commit, err,
                   start_time, cmd_idx, all_output, success, result, cmd_log, clock,
                   api_vars, appended, op>>

\* faulty variant: a failed fetch makes the Monitor forget the commit it
\* remembered
get_latest_commit_err_Forgets(r) ==
    /\ pc[r] = "get_latest_commit"
    /\ ext' = [ext EXCEPT ![r] = "none"]
    /\ \E e \in GitErrors : err' = [err EXCEPT ![r] = e]
    /\ last_commit' = [last_commit EXCEPT ![r] = None]
    /\ Goto(r, "run_err")
    /\ UNCHANGED <<global_state, lock, build_counter, current_commit,
                   start_time, cmd_idx, all_output, success, result, cmd_log, clock,
                   api_vars, appended, op>>

\* get_latest_commit fails; check_and_build returns the error with `?`
get_latest_commit_err(r) ==
    /\ pc[r] = "get_latest_commit"
    /\ ext' = [ext EXCEPT ![r] = "none"]
    /\ \E e \in GitErrors : err' = [err EXCEPT ![r] = e]
    /\ Goto(r, "run_err")
    /\ UNCHANGED <<global_state, lock, last_commit, build_counter, current_commit,
                   start_time, cmd_idx, all_output, success, result, cmd_log, clock,
                   api_vars, appended, op>>

\* get_latest_commit returns the commit last remembered: check_and_build returns Ok
get_latest_commit_same(r) ==
    /\ pc[r] = "get_latest_commit"
    /\ ext' = [ext EXCEPT ![r] = "none"]
    /\ \E h \in Commits :
        /\ NoChanges(last_commit[r], h)
        /\ current_commit' = [current_commit EXCEPT ![r] = h]
    /\ Goto(r, "run_ok")
    /\ UNCHANGED <<global_state, lock, last_commit, build_counter, err, start_time, cmd_idx,
                   all_output, success, result, cmd_log, clock, api_vars, appended, op>>

\* get_latest_commit returns another commit: build_counter += 1 and run_commands
\* starts (start_time, all_output, success)
get_latest_commit_new(r) ==
    /\ pc[r] = "get_latest_commit"
    /\ clock <= MaxBuilds
    /\ ext' = [ext EXCEPT ![r] = "none"]
    /\ \E h \in Commits :
        /\ ~NoChanges(last_commit[r], h)
        /\ current_commit' = [current_commit EXCEPT ![r] = h]
    /\ build_counter' = [build_counter EXCEPT ![r] = @ + 1]
    /\ start_time' = [start_time EXCEPT ![r] = clock]
    /\ clock' = clock + 1
    /\ all_output' = [all_output EXCEPT ![r] = << >>]
    /\ success' = [success EXCEPT ![r] = TRUE]
    /\ cmd_idx' = [cmd_idx EXCEPT ![r] = 1]
    /\ cmd_log' = [cmd_log EXCEPT ![r] = << >>]
    /\ Goto(r, "run_commands")
    /\ UNCHANGED <<global_state, lock, last_commit, err, result, api_vars, appended, op>>

\* run_commands, "Update status": the lock
run_commands_lock(r) ==
    /\ pc[r] = "run_commands"
    /\ Acquire(r)
    /\ Goto(r, "run_commands_building")
    /\ UNCHANGED <<global_state, last_commit, build_counter, current_commit, err, start_time,
                   cmd_idx, all_output, success, result, ext, cmd_log, clock, api_vars,
                   appended, op>>

\* faulty variant: the guard lives until run_commands returns
BuildingStatusUnlock_Kept(r) == lock = r /\ UNCHANGED lock

\* run_commands, "Update status": the block ends and its guard is dropped
\* before the for loop
BuildingStatusUnlock(r) == Release(r)

\* run_commands, "Update status": status Building..., end of the block; with
\* no command to run the for loop is over and run_commands returns the BuildResult
run_commands_building(r) ==
    /\ pc[r] = "run_commands_building"
    /\ global_state' = update_repository_status(global_state, RepoConfig[r].id, "Building...")
    /\ BuildingStatusUnlock(r)
    /\ IF Len(RepoConfig[r].commands) = 0
       THEN /\ result' = [result EXCEPT ![r] = BuildResult(r, all_output[r], success[r])]
            /\ Goto(r, "update_state")
       ELSE /\ UNCHANGED result
            /\ Goto(r, "for_cmd")
    /\ UNCHANGED <<last_commit, build_counter, current_commit, err, start_time, cmd_idx,
                   all_output, success, ext, cmd_log, clock, api_vars, appended, op>>

\* run_commands, `for cmd in &self.repository.commands`: execute_command starts
\* `sh -c cmd`
execute_command_spawn(r) ==
    /\ pc[r] = "for_cmd"
    /\ ext' = [ext EXCEPT ![r] = "sh -c"]
    /\ Goto(r, "execute_command")
    /\ UNCHANGED <<global_state, lock, last_commit, build_counter, current_commit, err,
                   start_time, cmd_idx, all_output, success, result, cmd_log, clock,
                   api_vars, appended, op>>

\* execute_command returns and the body of the for loop handles what it
\* returned; when the loop is left, run_commands returns the BuildResult
execute_command_return(r) ==
    /\ pc[r] = "execute_command"
    /\ ext' = [ext EXCEPT ![r] = "none"]
    /\ \E res \in CommandResults :
        LET cmd == RepoConfig[r].commands[cmd_idx[r]]
            step == loop_body(all_output[r], success[r], cmd, res)
        IN /\ all_output' = [all_output EXCEPT ![r] = step.all_output]
           /\ success' = [success EXCEPT ![r] = step.success]
           /\ cmd_log' = [cmd_log EXCEPT ![r] = Append(@, [cmd |-> cmd, res |-> res])]
           /\ cmd_idx' = [cmd_idx EXCEPT ![r] = @ + 1]
           /\ IF LoopLeft(r, cmd_idx[r], step)
              THEN /\ result' = [result EXCEPT ![r] =
                                    BuildResult(r, step.all_output, step.success)]
                   /\ Goto(r, "update_state")
              ELSE /\ UNCHANGED result
                   /\ Goto(r, "for_cmd")
    /\ UNCHANGED <<global_state, lock, last_commit, build_counter, current_commit, err,
                   start_time, clock, api_vars, appended, op>>

\* check_and_build, "Update state": the lock
update_state_lock(r) ==
    /\ pc[r] = "update_state"
    /\ Acquire(r)
    /\ Goto(r, "add_build_repo")
    /\ UNCHANGED <<global_state, last_commit, build_counter, current_commit, err, start_time,
                   cmd_idx, all_output, success, result, ext, cmd_log, clock, api_vars,
                   appended, op>>

\* check_and_build, state.add_build: "Add to repository-specific builds"
update_state_add_build_repo(r) ==
    /\ pc[r] = "add_build_repo"
    /\ Hold(r)
    /\ global_state' = add_build_repo(global_state, result[r])
    /\ appended' = Append(appended, result[r])
    /\ Goto(r, "add_build_recent")
    /\ UNCHANGED <<last_commit, build_counter, current_commit, err, start_time, cmd_idx,
                   all_output, success, result, ext, cmd_log, clock, api_vars, op>>

\* check_and_build, state.add_build: "Add to global recent builds"
update_state_add_build_recent(r) ==
    /\ pc[r] = "add_build_recent"
    /\ Hold(r)
    /\ global_state' = add_build_recent(global_state, result[r])
    /\ Goto(r, "update_status")
    /\ UNCHANGED <<last_commit, build_counter, current_commit, err, start_time, cmd_idx,
                   all_output, success, result, ext, cmd_log, clock, api_vars, appended, op>>

\* faulty variant: the status of the finished build is not written
update_state_status_Skipped(r) ==
    /\ pc[r] = "update_status"
    /\ Hold(r)
    /\ Goto(r, "get_current_branch")
    /\ UNCHANGED <<global_state, last_commit, build_counter, current_commit, err, start_time,
                   cmd_idx, all_output, success, result, ext, cmd_log, clock, api_vars,
                   appended, op>>

\* check_and_build, state.update_repository_status: Passing or Failed
update_state_status(r) ==
    /\ pc[r] = "update_status"
    /\ Hold(r)
    /\ global_state' = update_repository_status(global_state, RepoConfig[r].id,
                                                ResultStatus(result[r]))
    /\ Goto(r, "get_current_branch")
    /\ UNCHANGED <<last_commit, build_counter, current_commit, err, start_time, cmd_idx,
                   all_output, success, result, ext, cmd_log, clock, api_vars, appended, op>>

\* the lock while get_current_branch runs: the guard `state` of the block is alive
BranchFetchLock(r) == Hold(r)

\* check_and_build, `if let Ok(branch) = self.get_current_branch()`:
\* `git branch --show-current` is started
get_current_branch_spawn(r) ==
    /\ pc[r] = "get_current_branch"
    /\ BranchFetchLock(r)
    /\ ext' = [ext EXCEPT ![r] = "git branch"]
    /\ Goto(r, "get_current_branch_wait")
    /\ UNCHANGED <<global_state, last_commit, build_counter, current_commit, err,
                   start_time, cmd_idx, all_output, success, result, cmd_log, clock,
                   api_vars, appended, op>>

\* get_current_branch returns Ok: update_repository_info, end of the block,
\* self.last_commit = Some(current_commit), check_and_build returns Ok
get_current_branch_ok(r) ==
    /\ pc[r] = "get_current_branch_wait"
    /\ ext' = [ext EXCEPT ![r] = "none"]
    /\ \E branch \in Branches :
        global_state' = update_repository_info(global_state, RepoConfig[r].id, branch,
                                               current_commit[r])
    /\ Release(r)
    /\ last_commit' = [last_commit EXCEPT ![r] = current_commit[r]]
    /\ Return(r)
    /\ Goto(r, "run_ok")
    /\ UNCHANGED <<build_counter, current_commit, err, clock, api_vars, appended, op>>

\* faulty variant: after a failed branch fetch the commit is not remembered
get_current_branch_err_NotRemembered(r) ==
    /\ pc[r] = "get_current_branch_wait"
    /\ ext' = [ext EXCEPT ![r] = "none"]
    /\ Release(r)
    /\ Return(r)
    /\ Goto(r, "run_ok")
    /\ UNCHANGED <<global_state, last_commit, build_counter, current_commit, err, clock,
                   api_vars, appended, op>>

\* faulty variant: a failed branch fetch overwrites the status of the build
get_current_branch_err_Surfaced(r) ==
    /\ pc[r] = "get_current_branch_wait"
    /\ ext' = [ext EXCEPT ![r] = "none"]
    /\ global_state' = update_repository_status(global_state, RepoConfig[r].id,
                                                "Error: Failed to get git branch")
    /\ Release(r)
    /\ last_commit' = [last_commit EXCEPT ![r] = current_commit[r]]
    /\ Return(r)
    /\ Goto(r, "run_ok")
    /\ UNCHANGED <<build_counter, current_commit, err, clock, api_vars, appended, op>>

\* get_current_branch returns Err: nothing is stored, end of the block,
\* self.last_commit = Some(current_commit), check_and_build returns Ok
get_current_branch_err(r) ==
    /\ pc[r] = "get_current_branch_wait"
    /\ ext' = [ext EXCEPT ![r] = "none"]
    /\ Release(r)
    /\ last_commit' = [last_commit EXCEPT ![r] = current_commit[r]]
    /\ Return(r)
    /\ Goto(r, "run_ok")
    /\ UNCHANGED <<global_state, build_counter, current_commit, err, clock, api_vars,
                   appended, op>>

\* run, Ok arm: the lock
run_ok_lock(r) ==
    /\ pc[r] = "run_ok"
    /\ Acquire(r)
    /\ Goto(r, "run_ok_reset")
    /\ UNCHANGED <<global_state, last_commit, build_counter, current_commit, err, start_time,
                   cmd_idx, all_output, success, result, ext, cmd_log, clock, api_vars,
                   appended, op>>

\* faulty variant: the Ok arm also takes an Error status back to Idle
run_ok_reset_ClearsError(r) ==
    /\ pc[r] = "run_ok_reset"
    /\ global_state' =
         IF /\ RepoConfig[r].id \in DOMAIN global_state.repositories
            /\ global_state.repositories[RepoConfig[r].id].current_status
                  \in {"Building...", "Error: Failed to get git commit"}
         THEN update_repository_status(global_state, RepoConfig[r].id, "Idle")
         ELSE global_state
    /\ Release(r)
    /\ current_commit' = [current_commit EXCEPT ![r] = None]
    /\ Goto(r, "check_and_build")
    /\ UNCHANGED <<last_commit, build_counter, err, start_time, cmd_idx,
                   all_output, success, result, ext, cmd_log, clock, api_vars, appended, op>>

\* faulty variant: the Ok arm writes Idle whatever the status is
run_ok_reset_Unconditional(r) ==
    /\ pc[r] = "run_ok_reset"
    /\ global_state' = update_repository_status(global_state, RepoConfig[r].id, "Idle")
    /\ Release(r)
    /\ current_commit' = [current_commit EXCEPT ![r] = None]
    /\ Goto(r, "check_and_build")
    /\ UNCHANGED <<last_commit, build_counter, err, start_time, cmd_idx,
                   all_output, success, result, ext, cmd_log, clock, api_vars, appended, op>>

\* run, Ok arm: a status still Building... becomes Idle; then thread::sleep and
\* the next iteration of the loop
run_ok_reset(r) ==
    /\ pc[r] = "run_ok_reset"
    /\ global_state' =
         IF /\ RepoConfig[r].id \in DOMAIN global_state.repositories
            /\ global_state.repositories[RepoConfig[r].id].current_status = "Building..."
         THEN update_repository_status(global_state, RepoConfig[r].id, "Idle")
         ELSE global_state
    /\ Release(r)
    /\ current_commit' = [current_commit EXCEPT ![r] = None]
    /\ Goto(r, "check_and_build")
    /\ UNCHANGED <<last_commit, build_counter, err, start_time, cmd_idx,
                   all_output, success, result, ext, cmd_log, clock, api_vars, appended, op>>

\* run, Err arm: the lock
run_err_lock(r) ==
    /\ pc[r] = "run_err"
    /\ Acquire(r)
    /\ Goto(r, "run_err_status")
    /\ UNCHANGED <<global_state, last_commit, build_counter, current_commit, err, start_time,
                   cmd_idx, all_output, success, result, ext, cmd_log, clock, api_vars,
                   appended, op>>

\* run, Err arm: status Error: e; then thread::sleep and the next iteration
\* of the loop
\* faulty variant: the Err arm leaves the loop after writing the status
run_err_status_Exits(r) ==
    /\ pc[r] = "run_err_status"
    /\ global_state' = update_repository_status(global_state, RepoConfig[r].id,
                                                ErrorStatus(err[r]))
    /\ Release(r)
    /\ err' = [err EXCEPT ![r] = ""]
    /\ Goto(r, "exited")
    /\ UNCHANGED <<last_commit, build_counter, current_commit, start_time, cmd_idx,
                   all_output, success, result, ext, cmd_log, clock, api_vars, appended, op>>

run_err_status(r) ==
    /\ pc[r] = "run_err_status"
    /\ global_state' = update_repository_status(global_state, RepoConfig[r].id,
                                                ErrorStatus(err[r]))
    /\ Release(r)
    /\ err' = [err EXCEPT ![r] = ""]
    /\ Goto(r, "check_and_build")
    /\ UNCHANGED <<last_commit, build_counter, current_commit, start_time, cmd_idx,
                   all_output, success, result, ext, cmd_log, clock, api_vars, appended, op>>

\* the thread start_daemon spawns for repository r
Monitor(r) ==
    \/ new_lock(r) \/ new_register(r) \/ run_lock(r) \/ run_idle(r)
    \/ get_latest_commit_spawn(r) \/ get_latest_commit_err(r)
    \/ get_latest_commit_same(r) \/ get_latest_commit_new(r)
    \/ run_commands_lock(r) \/ run_commands_building(r)
    \/ execute_command_spawn(r) \/ execute_command_return(r)
    \/ update_state_lock(r) \/ update_state_add_build_repo(r)
    \/ update_state_add_build_recent(r) \/ update_state_status(r)
    \/ get_current_branch_spawn(r) \/ get_current_branch_ok(r) \/ get_current_branch_err(r)
    \/ run_ok_lock(r) \/ run_ok_reset(r) \/ run_err_lock(r) \/ run_err_status(r)

Next == \E r \in Repos : Monitor(r)

Spec == Init /\ [][Next]_vars

\* Each Monitor is an OS thread of its own (thread::spawn): a thread that can
\* run does run, the external process it waits for returns, its sleep ends,
\* and a thread that asks for the mutex again and again while the others
\* release it between their polls is granted it.
Fairness == \A r \in Repos : SF_vars(Monitor(r))

SpecLive == Spec /\ Fairness

(***************************************************************************)
(* The Store driven directly: GlobalState's operations called one after    *)
(* the other, with no Monitor running.                                     *)
(***************************************************************************)
StoreStatuses == {"Idle", "Passing"}

\* a BuildResult as run_commands numbers and stamps it: the next sequence
\* number of the repository, the current time
DriverBuild(id, ok) ==
    [id |-> build_counter[id] + 1, repository_id |-> id,
     repository_name |-> RepoConfig[id].name, success |-> ok, output |-> << >>,
     timestamp |-> clock, commit_hash |-> "c1"]

Did(name, id) == op' = [op EXCEPT !.name = name, !.repo = id, !.count = @ + 1]

\* add_repository_state(repository), for a repository that may be registered already
store_register(r) ==
    /\ op.count < MaxOps
    /\ global_state' = add_repository_state(global_state, RepoConfig[r])
    /\ Did("add_repository_state", r)
    /\ UNCHANGED <<lock, monitor_vars, api_vars, appended>>

\* update_repository_status(repo_id, status), for a known or unknown repo_id
store_status(id, status) ==
    /\ op.count < MaxOps
    /\ global_state' = update_repository_status(global_state, id, status)
    /\ Did("update_repository_status", id)
    /\ UNCHANGED <<lock, monitor_vars, api_vars, appended>>

\* update_repository_info(repo_id, branch, commit), for a known or unknown repo_id
store_info(id, branch, commit) ==
    /\ op.count < MaxOps
    /\ global_state' = update_repository_info(global_state, id, branch, commit)
    /\ Did("update_repository_info", id)
    /\ UNCHANGED <<lock, monitor_vars, api_vars, appended>>

\* add_build(build), for a build of a configured repository
store_build(r, ok) ==
    /\ op.count < MaxOps
    /\ global_state' = add_build(global_state, DriverBuild(r, ok))
    /\ appended' = Append(appended, DriverBuild(r, ok))
    /\ build_counter' = [build_counter EXCEPT ![r] = @ + 1]
    /\ clock' = clock + 1
    /\ Did("add_build", r)
    /\ UNCHANGED <<lock, pc, last_commit, current_commit, err, start_time, cmd_idx,
                   all_output, success, result, ext, cmd_log, api_vars>>

NextStore ==
    \/ \E r \in Repos : store_register(r)
    \/ \E id \in Repos \cup {UnknownRepo}, status \in StoreStatuses : store_status(id, status)
    \/ \E id \in Repos \cup {UnknownRepo}, branch \in Branches, commit \in Commits :
          store_info(id, branch, commit)
    \/ \E r \in Repos, ok \in BOOLEAN : store_build(r, ok)

SpecStore == Init /\ [][NextStore]_vars

(***************************************************************************)
(* The Store filled to its caps: every repository registered, then         *)
(* add_build called for one repository after the other, in one of the      *)
(* Schedules.                                                              *)
(***************************************************************************)
Schedules == {<<"r1", "r2">>, <<"r2", "r1">>}

\* the Store after CiRunner::new ran for every configured repository
RECURSIVE RegisterAll(_, _)
RegisterAll(state, rs) ==
    IF rs = {} THEN state
    ELSE LET r == CHOOSE x \in rs : TRUE
         IN RegisterAll(add_repository_state(state, RepoConfig[r]), rs \ {r})

InitCaps ==
    /\ global_state = RegisterAll(GlobalStateNew, Repos)
    /\ lock = Free
    /\ pc = [r \in Repos |-> "new"]
    /\ last_commit = [r \in Repos |-> None]
    /\ build_counter = [r \in Repos |-> 0]
    /\ current_commit = [r \in Repos |-> None]
    /\ err = [r \in Repos |-> ""]
    /\ start_time = [r \in Repos |-> 0]
    /\ cmd_idx = [r \in Repos |-> 1]
    /\ all_output = [r \in Repos |-> << >>]
    /\ success = [r \in Repos |-> TRUE]
    /\ result = [r \in Repos |-> NoResult]
    /\ ext = [r \in Repos |-> "none"]
    /\ cmd_log = [r \in Repos |-> << >>]
    /\ clock = 1
    /\ api_pc = "idle"
    /\ api_req = NoReq
    /\ response = NoResponse
    /\ appended = << >>
    /\ \E sch \in Schedules : op = [NoOp EXCEPT !.schedule = sch]

\* add_build for the repository whose turn it is
caps_build ==
    /\ op.count < MaxAppends
    /\ LET r == op.schedule[op.run]
       IN /\ global_state' = add_build(global_state, DriverBuild(r, TRUE))
          /\ appended' = Append(appended, DriverBuild(r, TRUE))
          /\ build_counter' = [build_counter EXCEPT ![r] = @ + 1]
          /\ clock' = clock + 1
          /\ Did("add_build", r)
    /\ UNCHANGED <<lock, pc, last_commit, current_commit, err, start_time, cmd_idx,
                   all_output, success, result, ext, cmd_log, api_vars>>

\* the turn passes to the next repository of the schedule
caps_turn ==
    /\ op.run < Len(op.schedule)
    /\ op' = [op EXCEPT !.run = @ + 1]
    /\ UNCHANGED <<global_state, lock, monitor_vars, api_vars, appended>>

NextCaps == caps_build \/ caps_turn

SpecCaps == InitCaps /\ [][NextCaps]_vars

(***************************************************************************)
(* web_server.rs: the API handlers, running beside the Monitors.           *)
(***************************************************************************)
\* the ids a client asks /api/build/<id> for
BuildIds == 1..MaxBuilds
\* the names a client asks /api/repository/<name> for: a configured one and
\* one that is not
RepoNames == {"alpha", "nope"}

Requests ==
    {[kind |-> "repositories", name |-> "", id |-> 0],
     [kind |-> "builds", name |-> "", id |-> 0]}
    \cup {[kind |-> "repository", name |-> n, id |-> 0] : n \in RepoNames}
    \cup {[kind |-> "build", name |-> "", id |-> i] : i \in BuildIds}

ErrorReply(message) == [kind |-> "error", error |-> message]

\* get_repositories: state.repositories.values(), in no particular order
get_repositories(state) ==
    [kind |-> "repositories",
     repositories |-> {state.repositories[k] : k \in DOMAIN state.repositories}]

\* get_repository: the repository state whose name is repo_name
get_repository(state, repo_name) ==
    LET found == {k \in DOMAIN state.repositories :
                      state.repositories[k].repository.name = repo_name}
    IN IF found = {} THEN ErrorReply("Repository not found")
       ELSE [kind |-> "repository", repository |-> state.repositories[CHOOSE k \in found : TRUE]]

\* get_recent_builds
get_recent_builds(state) == [kind |-> "builds", builds |-> state.recent_builds]

\* faulty variant: the search runs from the back of the feed, the oldest
\* build with the id is returned
get_build_detail_Oldest(state, id) ==
    LET hits == {i \in DOMAIN state.recent_builds : state.recent_builds[i].id = id}
    IN IF hits = {} THEN ErrorReply("Build not found")
       ELSE [kind |-> "build",
             build |-> state.recent_builds[CHOOSE i \in hits : \A j \in hits : i >= j]]

\* get_build_detail: state.recent_builds.iter().find(|b| b.id == id), the
\* first position of the feed whose build carries the id
get_build_detail(state, id) ==
    LET hits == {i \in DOMAIN state.recent_builds : state.recent_builds[i].id = id}
    IN IF hits = {} THEN ErrorReply("Build not found")
       ELSE [kind |-> "build",
             build |-> state.recent_builds[CHOOSE i \in hits : \A j \in hits : i <= j]]

\* the handler the route of the request leads to
Handle(state, req) ==
    CASE req.kind = "repositories" -> get_repositories(state)
      [] req.kind = "repository" -> get_repository(state, req.name)
      [] req.kind = "builds" -> get_recent_builds(state)
      [] req.kind = "build" -> get_build_detail(state, req.id)

\* faulty variant: the recent builds are drained into the reply instead of
\* being read
api_handle_Drains(req) ==
    /\ api_pc = "idle"
    /\ Acquire(Api)
    /\ api_req' = req
    /\ response' = Handle(global_state, req)
    /\ api_pc' = "reply"
    /\ global_state' = IF req.kind = "builds"
                       THEN [global_state EXCEPT !.recent_builds = << >>]
                       ELSE global_state
    /\ UNCHANGED <<monitor_vars, appended, op>>

\* a handler is called with a request, `state.lock().unwrap()`, and builds
\* its reply from the Store while it holds the guard
api_handle(req) ==
    /\ api_pc = "idle"
    /\ Acquire(Api)
    /\ api_req' = req
    /\ response' = Handle(global_state, req)
    /\ api_pc' = "reply"
    /\ UNCHANGED <<global_state, monitor_vars, appended, op>>

\* faulty variant: the handler returns with the guard leaked, the lock stays
\* taken
api_return_KeepsLock ==
    /\ api_pc = "reply"
    /\ Hold(Api)
    /\ api_req' = NoReq
    /\ response' = NoResponse
    /\ api_pc' = "idle"
    /\ UNCHANGED <<global_state, monitor_vars, appended, op>>

\* the handler returns: the guard is dropped, the reply goes to the client
api_return ==
    /\ api_pc = "reply"
    /\ Release(Api)
    /\ api_req' = NoReq
    /\ response' = NoResponse
    /\ api_pc' = "idle"
    /\ UNCHANGED <<global_state, monitor_vars, appended, op>>

ApiHandler == (\E req \in Requests : api_handle(req)) \/ api_return

NextApi == Next \/ ApiHandler

SpecApi == Init /\ [][NextApi]_vars

(***************************************************************************)
(* A Monitor that has been running for long: the thread of one repository  *)
(* has built one commit after the other and its history is one short of    *)
(* the cap, while the thread of the other repository has not yet run       *)
(* CiRunner::new.                                                          *)
(***************************************************************************)
\* the repository that has been built: the one with no command to run
LongRunner == "r2"

\* the i-th BuildResult of the long runner, its builds having started at the
\* clock readings t0 + 1, t0 + 2, ...: HEAD went back and forth between two
\* commits, and with no command every build succeeded with an empty transcript
PastResult(i, t0) ==
    [id |-> i, repository_id |-> RepoConfig[LongRunner].id,
     repository_name |-> RepoConfig[LongRunner].name, success |-> TRUE, output |-> << >>,
     timestamp |-> t0 + i, commit_hash |-> IF i % 2 = 1 THEN "c1" ELSE "c2"]

\* the Store after the long runner registered and went through n polls that
\* each found a new commit: every add_build put its result in front of both
\* lists and cut them to their caps, the last build left its status, and the
\* last branch fetch the branch and commit
PastStore(n, t0) ==
    LET id == RepoConfig[LongRunner].id
        past == [i \in 1..n |-> PastResult(n + 1 - i, t0)]
        registered == add_repository_state(GlobalStateNew, RepoConfig[LongRunner])
        filled == [repositories |->
                       [registered.repositories EXCEPT
                           ![id].builds = Truncate(past, RepoBuildsCap)],
                   recent_builds |-> Truncate(past, RecentBuildsCap)]
    IN IF n = 0
       THEN update_repository_status(registered, id, "Idle")
       ELSE update_repository_info(
                update_repository_status(filled, id, ResultStatus(PastResult(n, t0))),
                id, "main", PastResult(n, t0).commit_hash)

\* the state in which the long runner is about to poll after its n-th build
AfterBuilds(n, t0) ==
    /\ global_state = PastStore(n, t0)
    /\ lock = Free
    /\ pc = [r \in Repos |-> IF r = LongRunner THEN "check_and_build" ELSE "new"]
    /\ last_commit = [r \in Repos |->
                         IF r = LongRunner /\ n > 0 THEN PastResult(n, t0).commit_hash
                         ELSE None]
    /\ build_counter = [r \in Repos |-> IF r = LongRunner THEN n ELSE 0]
    /\ current_commit = [r \in Repos |-> None]
    /\ err = [r \in Repos |-> ""]
    /\ start_time = [r \in Repos |-> 0]
    /\ cmd_idx = [r \in Repos |-> 1]
    /\ all_output = [r \in Repos |-> << >>]
    /\ success = [r \in Repos |-> TRUE]
    /\ result = [r \in Repos |-> NoResult]
    /\ ext = [r \in Repos |-> "none"]
    /\ cmd_log = [r \in Repos |-> << >>]
    /\ clock = t0 + n + 1
    /\ api_pc = "idle"
    /\ api_req = NoReq
    /\ response = NoResponse
    /\ appended = [i \in 1..n |-> PastResult(i, t0)]
    /\ op = NoOp

\* 49 builds have been made, the clock is read from there on
InitLong == AfterBuilds(RepoBuildsCap - 1, 1 - RepoBuildsCap)

SpecLong == InitLong /\ [][Next]_vars

(***************************************************************************)
(* Properties                                                              *)
(***************************************************************************)
Range(seq) == {seq[i] : i \in DOMAIN seq}
Registered(r) == r \in DOMAIN global_state.repositories
History(r) == global_state.repositories[r].builds
Feed == global_state.recent_builds
Status(r) == global_state.repositories[r].current_status
\* the results handed to add_build for repository r, oldest first
AppendedOf(r) == SelectSeq(appended, LAMBDA b : b.repository_id = r)
\* the n most recent entries of a log kept oldest first, most recent first
RECURSIVE Reverse(_)
Reverse(seq) == IF seq = << >> THEN << >> ELSE Append(Reverse(Tail(seq)), Head(seq))
MostRecent(log, n) == LET rev == Reverse(log) IN IF Len(rev) > n THEN SubSeq(rev, 1, n) ELSE rev
Min(a, b) == IF a < b THEN a ELSE b

\* a poll of r whose commit fetch succeeded ends in this step
SuccessfulPoll(r) == pc[r] = "get_latest_commit" /\ pc'[r] \in {"run_ok", "run_commands"}
\* a build of r is triggered in this step
BuildTriggered(r) == pc[r] # "run_commands" /\ pc'[r] = "run_commands"

\* C1: a successful poll triggers a build exactly when the observed hash
\* differs from the hash the Monitor remembers (None before the first build,
\* so the first observation always triggers); a build is triggered by nothing
\* else, and every trigger counts one build.
C1_BuildExactlyOnChange ==
    [][\A r \in Repos :
         /\ SuccessfulPoll(r) =>
               (BuildTriggered(r) <=> current_commit'[r] # last_commit[r])
         /\ BuildTriggered(r) => SuccessfulPoll(r)
         /\ build_counter'[r] = build_counter[r] + (IF BuildTriggered(r) THEN 1 ELSE 0)]_vars

\* C1 witness: a second build of a repository was triggered by a hash that
\* differs from the remembered one
C1_Witness ==
    \E r \in Repos : /\ pc[r] = "run_commands" /\ build_counter[r] = 2
                     /\ last_commit[r] # None /\ current_commit[r] # last_commit[r]

\* where a Monitor is between the start of a build and the insertion of its
\* result into the repository's history
InFlightPcs == {"run_commands", "run_commands_building", "for_cmd", "execute_command",
                "update_state", "add_build_repo"}

\* C2: per repository at most one build is in flight: the builds started exceed
\* the results recorded in the repository's history by one while the Monitor is
\* building and by none otherwise, so a build starts only when every earlier
\* result is recorded.
C2_BuildsSequential ==
    \A r \in Repos :
        LET recorded == IF Registered(r) THEN Len(History(r)) ELSE 0
        IN /\ build_counter[r] - recorded = (IF pc[r] \in InFlightPcs THEN 1 ELSE 0)
           /\ Registered(r) => \A i \in 1..recorded :
                                   History(r)[i].id = recorded - i + 1

\* C2 witness: a second build is in flight with the first one recorded
C2_Witness ==
    \E r \in Repos : /\ pc[r] = "execute_command" /\ build_counter[r] = 2
                     /\ Registered(r) /\ Len(History(r)) = 1

\* C3: no Monitor holds the Store lock while an external process it started
\* (commit fetch, branch fetch, build command) is running.
C3_NoLockAcrossExternal == \A r \in Repos : ext[r] # "none" => lock # r

\* C4: while the build commands of a repository execute (the whole for loop),
\* its Monitor does not hold the Store lock.
C4_BuildOutsideLock ==
    \A r \in Repos : (pc[r] \in {"for_cmd", "execute_command"} \/ ext[r] = "sh -c") => lock # r

\* C4 witness: one Monitor is inside its "Update state" critical section while
\* a build command of the other repository is running
C4_Witness ==
    \E r, q \in Repos : r # q /\ ext[r] = "sh -c" /\ lock = q /\ pc[q] = "update_status"

\* C5: whenever the Store lock is free (no result evicted yet), the results in
\* the global feed are exactly the results in the repositories' histories, each
\* in the history of its own repository, and the newest result of the feed is
\* the newest of its repository's history.
C5_AppendAtomic ==
    (lock = Free /\ Len(appended) <= RepoBuildsCap) =>
        /\ Range(Feed) = UNION {Range(History(r)) : r \in DOMAIN global_state.repositories}
        /\ \A b \in Range(Feed) : /\ Registered(b.repository_id)
                                  /\ b \in Range(History(b.repository_id))
        /\ Feed # << >> => History(Feed[1].repository_id)[1] = Feed[1]

\* C5 witness: the lock is free and both repositories have a result in both lists
C5_Witness ==
    /\ lock = Free
    /\ Len(Feed) = 2
    /\ \A r \in Repos : Registered(r) /\ Len(History(r)) = 1

\* a result handed to add_build that the cap of its repository's history has
\* not evicted: fewer than RepoBuildsCap results of the repository came after it
NotEvictedFromHistory(b) ==
    \E i \in DOMAIN appended :
        /\ appended[i] = b
        /\ Cardinality({j \in DOMAIN appended :
               j > i /\ appended[j].repository_id = b.repository_id}) < RepoBuildsCap

\* C6: every result in the global feed that is not evicted from its
\* repository's history is in the history of the repository it names, and in
\* the history of no other repository.
C6_FeedInOneHistory ==
    \A b \in Range(Feed) :
        NotEvictedFromHistory(b) =>
            /\ Registered(b.repository_id)
            /\ b \in Range(History(b.repository_id))
            /\ \A q \in DOMAIN global_state.repositories :
                   q # b.repository_id => b \notin Range(History(q))

\* C6 witness: the feed holds a result its repository's history has evicted
\* and a result it has not
C6_Witness ==
    /\ \E b \in Range(Feed) : ~NotEvictedFromHistory(b)
    /\ \E b \in Range(Feed) : NotEvictedFromHistory(b) /\ b \in Range(History(b.repository_id))

\* C7: after n calls of add_build, a repository's history is the
\* min(n_r, 50) most recent results of that repository and the global feed the
\* min(n, 100) most recent results, both most recent first.
C7_CapsKeepMostRecent ==
    /\ Feed = MostRecent(appended, RecentBuildsCap)
    /\ Len(Feed) = Min(Len(appended), RecentBuildsCap)
    /\ \A r \in DOMAIN global_state.repositories :
          /\ History(r) = MostRecent(AppendedOf(r), RepoBuildsCap)
          /\ Len(History(r)) = Min(Len(AppendedOf(r)), RepoBuildsCap)

\* C7 witness: 101 results were appended, 51 of them for one repository
C7_Witness ==
    /\ Len(appended) = RecentBuildsCap + 1
    /\ \E r \in Repos : Len(AppendedOf(r)) = RepoBuildsCap + 1

\* C8: add_repository_state for a repository id that has an entry leaves the
\* Store as it is.
C8_RegisterExistingNoOp ==
    [][(op'.name = "add_repository_state" /\ op'.count # op.count /\ Registered(op'.repo))
          => global_state' = global_state]_vars

\* what a command did, as the executor sees it
CommandOk(entry) == entry.res.kind = "Ok" /\ entry.res.success

\* C9: the commands a build spawned are the first commands of the list, in
\* list order; only the last one spawned can have failed; and the success flag
\* of the BuildResult is true iff every command of the list was spawned and
\* succeeded.
C9_FailFast ==
    \A r \in Repos :
        LET log == cmd_log[r]
            cmds == RepoConfig[r].commands
        IN /\ Len(log) <= Len(cmds)
           /\ \A i \in 1..Len(log) : log[i].cmd = cmds[i]
           /\ \A i \in 1..(Len(log) - 1) : CommandOk(log[i])
           /\ pc[r] \in {"for_cmd", "execute_command"} =>
                 \A i \in 1..Len(log) : CommandOk(log[i])
           /\ result[r] # NoResult =>
                 (result[r].success <=>
                     (Len(log) = Len(cmds) /\ \A i \in 1..Len(log) : CommandOk(log[i])))

\* C9 witness: the first of two commands failed and the build ended there,
\* with success false
C9_Witness ==
    \E r \in Repos :
        /\ Len(RepoConfig[r].commands) = 2
        /\ pc[r] = "update_state"
        /\ Len(cmd_log[r]) = 1
        /\ ~CommandOk(cmd_log[r][1])
        /\ ~result[r].success

\* the commands the pieces of a transcript are about, in order, without repeats
RECURSIVE TranscriptCommands(_)
TranscriptCommands(out) ==
    IF out = << >> THEN << >>
    ELSE LET rest == TranscriptCommands(Tail(out))
         IN IF rest # << >> /\ Head(rest) = Head(out).cmd THEN rest
            ELSE <<Head(out).cmd>> \o rest

\* C10: once the status of a finished build is written, it is Passing if the
\* recorded BuildResult has success true and Failed otherwise; the transcript
\* of a failed build covers the commands up to the failing one and none after.
C10_StatusFollowsResult ==
    \A r \in Repos :
        pc[r] \in {"get_current_branch", "get_current_branch_wait"} =>
            LET b == History(r)[1]
            IN /\ b = result[r]
               /\ Status(r) = (IF b.success THEN "Passing" ELSE "Failed")
               /\ ~b.success =>
                     /\ cmd_log[r] # << >>
                     /\ ~CommandOk(cmd_log[r][Len(cmd_log[r])])
                     /\ TranscriptCommands(b.output) =
                           SubSeq(RepoConfig[r].commands, 1, Len(cmd_log[r]))

\* C10 witness: a build failed at its first command and the status is Failed
C10_Witness ==
    \E r \in Repos :
        /\ pc[r] = "get_current_branch"
        /\ Status(r) = "Failed"
        /\ Len(RepoConfig[r].commands) = 2
        /\ Len(cmd_log[r]) = 1

\* the thread of r takes a step
Steps(r) == pc'[r] # pc[r]
\* the Error status that carries the message of a failed commit fetch
FetchErrorStatuses == {"Error: Failed to get git commit"}
RepoInfo(r) == global_state.repositories[r].repo_info

\* C11: when the commit fetch of a poll fails, the Monitor goes through the
\* Err arm only: it writes an Error status carrying the message, starts no
\* build, leaves its build counter, its remembered commit, the histories and
\* the feed as they are, and is back at the start of check_and_build.
C11_FetchErrorOnlySetsStatus ==
    [][\A r \in Repos :
         /\ (pc[r] = "get_latest_commit" /\ pc'[r] = "run_err") =>
               /\ err'[r] \in GitErrors
               /\ global_state' = global_state
         /\ (pc[r] = "run_err" /\ Steps(r)) =>
               /\ pc'[r] = "run_err_status"
               /\ global_state' = global_state
         /\ (pc[r] = "run_err_status" /\ Steps(r)) =>
               /\ pc'[r] = "check_and_build"
               /\ global_state'.repositories[r].current_status \in FetchErrorStatuses
               /\ global_state'.repositories[r].builds = History(r)
               /\ global_state'.repositories[r].repo_info = RepoInfo(r)
               /\ global_state'.recent_builds = Feed
         /\ (pc[r] \in {"get_latest_commit", "run_err", "run_err_status"}
               /\ pc'[r] \in {"run_err", "run_err_status", "check_and_build"}
               /\ Steps(r)) =>
               /\ build_counter'[r] = build_counter[r]
               /\ last_commit'[r] = last_commit[r]
               /\ result'[r] = NoResult /\ appended' = appended]_vars

\* C11 witness: the first poll of a repository failed: its status is the
\* Error status, it has no build, and its Monitor is about to poll again
C11_Witness ==
    \E r \in Repos :
        /\ pc[r] = "check_and_build"
        /\ Registered(r) /\ Status(r) \in FetchErrorStatuses
        /\ build_counter[r] = 0 /\ History(r) = << >>

\* C12: no error inside a Monitor's loop ends that Monitor or another one:
\* when external processes return and threads are scheduled, every Monitor
\* starts a poll (its commit fetch) again and again, forever.
C12_PollsForever == \A r \in Repos : []<>(pc[r] = "get_latest_commit")

\* C12 witness: a Monitor whose last iteration ended in the Error status is
\* polling again while the other Monitor's build has failed at a command
\* that could not be spawned
C12_Witness ==
    \E r, q \in Repos :
        /\ r # q
        /\ Registered(r) /\ Status(r) \in FetchErrorStatuses
        /\ pc[r] = "get_latest_commit" /\ ext[r] = "git rev-parse"
        /\ cmd_log[q] # << >> /\ cmd_log[q][Len(cmd_log[q])].res.kind = "Err"

\* the status a reader finds for r, "absent" before r is registered
StatusOrAbsent(r) == IF Registered(r) THEN Status(r) ELSE "absent"
\* every command of r's list has run in the current build and succeeded
AllCommandsSucceeded(r) ==
    /\ Len(cmd_log[r]) = Len(RepoConfig[r].commands)
    /\ \A i \in DOMAIN cmd_log[r] : CommandOk(cmd_log[r][i])
\* the results of r in the feed
FeedOf(r) == SelectSeq(Feed, LAMBDA b : b.repository_id = r)

C14_InfoPairAtomic ==
    [][\A r \in Repos :
         Registered(r) =>
         /\ (RepoInfo(r)'.last_commit # RepoInfo(r).last_commit) =>
               /\ lock = r /\ pc[r] = "get_current_branch_wait"
               /\ RepoInfo(r)'.last_commit = current_commit[r]
               /\ RepoInfo(r)'.branch \in Branches
         /\ (RepoInfo(r)'.branch # RepoInfo(r).branch) =>
               /\ lock = r /\ pc[r] = "get_current_branch_wait"
               /\ RepoInfo(r)'.last_commit = current_commit[r]
         /\ lock' = Free =>
               \/ RepoInfo(r)'.branch = "unknown" /\ RepoInfo(r)'.last_commit = "unknown"
               \/ RepoInfo(r)'.branch \in Branches /\ RepoInfo(r)'.last_commit \in Commits]_vars

\* C14 witness: a second update has replaced the pair of a repository: the
\* stored commit is the one of build 2 and the branch is a fetched one
C14_Witness ==
    \E r \in Repos :
        /\ lock = Free /\ Registered(r) /\ Len(History(r)) = 2
        /\ RepoInfo(r).last_commit = History(r)[1].commit_hash
        /\ RepoInfo(r).last_commit # History(r)[2].commit_hash
        /\ RepoInfo(r).branch \in Branches

\* no Monitor is between the two halves of add_build
NoAddBuildUnderWay == \A r \in Repos : pc[r] # "add_build_recent"

\* C15: the feed as a set is determined by what each Monitor appended, not by
\* how the appends of the two Monitors were interleaved: while no more than
\* the cap has been appended and no add_build is under way, the feed holds
\* exactly the results of every Monitor's own sequence of appends, each once.
C15_FeedSetIndependentOfInterleaving ==
    (NoAddBuildUnderWay /\ Len(appended) <= RecentBuildsCap) =>
        /\ Range(Feed) = UNION {Range(AppendedOf(r)) : r \in Repos}
        /\ Len(Feed) = Len(appended)
        /\ \A i, j \in DOMAIN Feed : Feed[i] = Feed[j] => i = j

\* C15 witness: both Monitors have appended, beta first although alpha's
\* build started first, and the feed holds both results
C15_Witness ==
    /\ NoAddBuildUnderWay /\ Len(appended) = 2 /\ Len(Feed) = 2
    /\ appended[1].repository_id = "r2"
    /\ appended[2].repository_id = "r1"
    /\ appended[2].timestamp < appended[1].timestamp

\* the positions of check_and_build's "Update state" block
UpdateStatePcs == {"add_build_repo", "add_build_recent", "update_status",
                   "get_current_branch", "get_current_branch_wait"}
\* the results whose add_build has finished, in the order the critical
\* sections that made them were entered
Entered ==
    IF NoAddBuildUnderWay THEN appended ELSE SubSeq(appended, 1, Len(appended) - 1)

\* C16: a Monitor inside its "Update state" block holds the lock, so the
\* blocks are entered one after the other and each appends its result before
\* the next is entered; the feed, read front to back, is the results in the
\* reverse of that order of entry, whatever the start times of the builds.
C16_FeedOrderIsEntryOrder ==
    /\ \A r \in Repos : pc[r] \in UpdateStatePcs => lock = r
    /\ Len(Entered) <= RecentBuildsCap => Feed = Reverse(Entered)

\* C16 witness: the result at the front of the feed is of a build that
\* started before the build of the entry behind it
C16_Witness ==
    /\ Len(Feed) = 2 /\ Len(Entered) = 2
    /\ Feed[1].timestamp < Feed[2].timestamp
    /\ Feed[1].repository_id # Feed[2].repository_id

\* C17: the results a Monitor hands to the Store carry the sequence numbers
\* 1, 2, 3, ... in the order its builds were attempted (their start times
\* increase with the number), a result in the making carries the number of
\* the build under way, and the numbering is per repository: the first
\* results of any two repositories carry the same number 1.
C17_SequenceNumbersPerRepository ==
    /\ \A r \in Repos :
          LET mine == AppendedOf(r)
          IN /\ \A i \in DOMAIN mine : mine[i].id = i
             /\ \A i, j \in DOMAIN mine : i < j => mine[i].timestamp < mine[j].timestamp
             /\ Len(mine) <= build_counter[r] /\ build_counter[r] <= Len(mine) + 1
             /\ result[r] # NoResult => result[r].id = build_counter[r]
    /\ \A r, q \in Repos :
          (AppendedOf(r) # << >> /\ AppendedOf(q) # << >>) =>
              AppendedOf(r)[1].id = AppendedOf(q)[1].id

\* C17 witness: the feed holds the first results of both repositories, both
\* numbered 1
C17_Witness ==
    /\ Len(Feed) = 2
    /\ Feed[1].id = 1 /\ Feed[2].id = 1
    /\ Feed[1].repository_id # Feed[2].repository_id

\* the positions of the feed whose build carries the id
FeedHits(id) == {i \in DOMAIN Feed : Feed[i].id = id}
\* the calls of add_build whose result carries the id, as positions of the log
AppendedHits(id) == {i \in DOMAIN appended : appended[i].id = id}

\* C18: the reply to a build-detail request is "Build not found" exactly when
\* no build of the feed carries the requested sequence number, otherwise it
\* is the build nearest to the front of the feed among those that carry it,
\* which is the one appended last of them (also when they belong to
\* different repositories).
C18_BuildDetailFirstInFeed ==
    (api_pc = "reply" /\ api_req.kind = "build") =>
        /\ response.kind \in {"build", "error"}
        /\ response.kind = "error" <=> FeedHits(api_req.id) = {}
        /\ response.kind = "error" => response.error = "Build not found"
        /\ response.kind = "build" =>
              /\ \E i \in FeedHits(api_req.id) :
                     /\ response.build = Feed[i]
                     /\ \A j \in FeedHits(api_req.id) : i <= j
              /\ \E i \in AppendedHits(api_req.id) :
                     /\ response.build = appended[i]
                     /\ \A j \in AppendedHits(api_req.id) : j <= i

\* C18 witness: the first builds of both repositories are in the feed, both
\* numbered 1; build 1 is requested and the reply is alpha's, appended after
\* beta's
C18_Witness ==
    /\ api_pc = "reply" /\ api_req.kind = "build" /\ api_req.id = 1
    /\ Len(Feed) = 2 /\ FeedHits(1) = {1, 2}
    /\ Feed[1].repository_id = "r1" /\ Feed[2].repository_id = "r2"
    /\ response.kind = "build" /\ response.build = Feed[1]

\* the last command the current build of r tried could not be spawned
SpawnFailed(r) == cmd_log[r] # << >> /\ cmd_log[r][Len(cmd_log[r])].res.kind = "Err"

\* what holds of a build of r whose command could not be spawned
SpawnFailureHandled(r) ==
    /\ pc[r] \in {"update_state"} \cup UpdateStatePcs
    /\ err[r] = ""
    /\ result[r].id = build_counter[r] /\ result[r].success = FALSE
    /\ result[r].output # << >>
    /\ result[r].output[Len(result[r].output)].kind = "exec_error"
    /\ result[r].output[Len(result[r].output)].cmd = cmd_log[r][Len(cmd_log[r])].cmd
    /\ pc[r] \in UpdateStatePcs \ {"add_build_repo"} => History(r)[1] = result[r]
    /\ pc[r] \in UpdateStatePcs \ {"add_build_repo", "add_build_recent"} => Feed[1] = result[r]
    /\ pc[r] \in {"get_current_branch", "get_current_branch_wait"} => Status(r) = "Failed"

\* C19: a command that cannot be spawned ends the build like a command that
\* exits non-zero: no further command is run, the error is not handed to
\* run's Err arm, the BuildResult has success = false and ends with the line
\* for the failed spawn, it is appended to history and feed, the status
\* written is Failed, and check_and_build returns Ok to the loop with the
\* status still Failed.
C19_SpawnFailureIsFailedBuild ==
    [][\A r \in Repos :
         /\ SpawnFailed(r)' => SpawnFailureHandled(r)'
         /\ (SpawnFailed(r) /\ Steps(r) /\ pc[r] = "get_current_branch_wait") =>
               /\ pc'[r] = "run_ok" /\ err'[r] = ""
               /\ Status(r)' = "Failed"
               /\ History(r)'[1].success = FALSE]_vars

\* C19 witness: alpha's second command could not be spawned after the first
\* succeeded; the failed result is recorded and the status is Failed
C19_Witness ==
    /\ SpawnFailed("r1") /\ Len(cmd_log["r1"]) = 2 /\ CommandOk(cmd_log["r1"][1])
    /\ pc["r1"] = "get_current_branch" /\ Status("r1") = "Failed"
    /\ History("r1")[1].success = FALSE /\ Feed[1] = History("r1")[1]

\* every Error status a VcsError could be surfaced as
VcsErrorStatuses == FetchErrorStatuses \cup {"Error: Failed to get git branch"}
\* r is between two iterations and the branch fetch of its latest build
\* failed: the Monitor remembers a commit the Store was never given
LatestBranchFetchFailed(r) ==
    /\ pc[r] = "check_and_build" /\ Registered(r)
    /\ last_commit[r] # None /\ RepoInfo(r).last_commit # last_commit[r]

\* C20 as stated: the Err arm writes an Error status after a failed commit
\* fetch, and an iteration in which the branch fetch failed ends with an
\* Error status as well.
C20_EveryVcsErrorSurfaced ==
    [][\A r \in Repos :
         /\ (pc[r] = "run_err_status" /\ Steps(r)) =>
               Status(r)' \in VcsErrorStatuses /\ pc'[r] = "check_and_build"
         /\ (pc[r] = "run_ok_reset" /\ Steps(r) /\ LatestBranchFetchFailed(r)') =>
               Status(r)' \in VcsErrorStatuses]_vars

\* C20, amended: a failed commit fetch is surfaced: the Err arm writes the
\* Error status with its message and the loop goes on.  A failed branch fetch
\* is not: the step in which get_current_branch returns without the Store
\* being given the commit changes nothing in the Store, so the status stays
\* the Passing or Failed of the build, check_and_build returns Ok, the Ok arm
\* leaves the status as it finds it, and the loop goes on.
C20_OnlyCommitFetchErrorSurfaced ==
    [][\A r \in Repos :
         /\ (pc[r] = "run_err_status" /\ Steps(r)) =>
               /\ err[r] \in GitErrors
               /\ Status(r)' \in FetchErrorStatuses /\ pc'[r] = "check_and_build"
         /\ (pc[r] = "get_current_branch_wait" /\ Steps(r)
               /\ RepoInfo(r)'.last_commit # current_commit[r]) =>
               /\ global_state' = global_state
               /\ Status(r)' = ResultStatus(History(r)[1])
               /\ pc'[r] = "run_ok" /\ err'[r] = ""
               /\ last_commit'[r] = current_commit[r]
         /\ (pc[r] = "run_ok_reset" /\ Steps(r)) =>
               /\ Status(r)' = Status(r) /\ pc'[r] = "check_and_build"]_vars

\* C20 witness: the branch fetch of a build failed and the iteration is over:
\* the Store was not given the commit and the status is the build's
C20_Witness ==
    \E r \in Repos :
        /\ LatestBranchFetchFailed(r)
        /\ Status(r) = ResultStatus(History(r)[1])
        /\ History(r)[1].commit_hash = last_commit[r]

\* C21: a build of a repository with an empty command list spawns no
\* command and returns a BuildResult with success = true and an empty
\* transcript; that result is what is recorded, and the status written for
\* it is Passing.
C21_EmptyCommandListPasses ==
    \A r \in Repos :
        Len(RepoConfig[r].commands) = 0 =>
            /\ cmd_log[r] = << >> /\ pc[r] \notin {"for_cmd", "execute_command"}
            /\ result[r] # NoResult => result[r].success /\ result[r].output = << >>
            /\ Registered(r) =>
                  \A i \in DOMAIN History(r) :
                      History(r)[i].success /\ History(r)[i].output = << >>
            /\ pc[r] \in {"get_current_branch", "get_current_branch_wait"} =>
                  /\ Status(r) = "Passing"
                  /\ History(r)[1] = result[r] /\ Feed[1] = result[r]

\* C21 witness: beta, which has no commands, has been built: the result is
\* recorded with success and an empty transcript and the status is Passing
C21_Witness ==
    /\ RepoConfig["r2"].commands = << >>
    /\ pc["r2"] = "get_current_branch" /\ build_counter["r2"] = 1
    /\ Status("r2") = "Passing"
    /\ History("r2")[1].success /\ History("r2")[1].output = << >>

\* the Store driver has just called the operation `name`
Called(name) == op'.name = name /\ op'.count # op.count

\* C22: update_repository_status(repo_id, status) on a repo_id without an
\* entry leaves the Store as it is; on a repo_id with an entry it writes the
\* status and leaves that entry's repository, repo info and builds, every
\* other entry, the set of entries and the recent builds as they are.
C22_SetStatusFrame ==
    [][Called("update_repository_status") =>
          LET id == op'.repo
              before == global_state.repositories
              after == global_state'.repositories
          IN IF id \notin DOMAIN before
             THEN global_state' = global_state
             ELSE /\ DOMAIN after = DOMAIN before
                  /\ \A k \in DOMAIN before \ {id} : after[k] = before[k]
                  /\ after[id].current_status \in StoreStatuses
                  /\ after[id] = [before[id] EXCEPT !.current_status = after[id].current_status]
                  /\ global_state'.recent_builds = global_state.recent_builds]_vars

\* C22 witness: the status of a registered repository was just set, with
\* another repository registered beside it and still at its first status
C22_Witness ==
    /\ op.name = "update_repository_status" /\ Registered(op.repo)
    /\ Status(op.repo) \in StoreStatuses
    /\ \E q \in Repos \ {op.repo} : Registered(q) /\ Status(q) = "Starting..."

\* the entry of q in the Store, "absent" before q is registered
EntryOrAbsent(q) == IF Registered(q) THEN global_state.repositories[q] ELSE "absent"
\* everything the CiRunner of q holds
RunnerOf(q) ==
    <<pc[q], last_commit[q], build_counter[q], current_commit[q], err[q], start_time[q],
      cmd_idx[q], all_output[q], success[q], result[q], ext[q], cmd_log[q]>>

\* C23: a step of the Monitor of r, whichever it is (register, a status
\* write, the repo-info update, either half of add_build, or a step outside
\* the Store), leaves the Store entry of every other repository q as it is,
\* and leaves everything the Monitor of q holds as it is: what one Monitor
\* does reaches another only through the lock and the feed.
C23_OnlyOwnMonitorMutates ==
    [][\A r \in Repos : Steps(r) =>
          /\ \A q \in Repos \ {r} :
                /\ EntryOrAbsent(q)' = EntryOrAbsent(q)
                /\ RunnerOf(q)' = RunnerOf(q)
          /\ \A b \in Range(Feed') \ Range(Feed) : b.repository_id = r]_vars

\* C23 witness: alpha has been built and its repo info stored while beta's
\* entry is as its own Monitor left it: Idle, no build, info unknown
C23_Witness ==
    /\ Registered("r1") /\ Registered("r2")
    /\ Len(History("r1")) = 1 /\ RepoInfo("r1").last_commit \in Commits
    /\ Status("r2") = "Idle" /\ History("r2") = << >>
    /\ RepoInfo("r2").last_commit = "unknown"

\* C24: a poll that observes the commit the Monitor remembers changes
\* nothing: the step in which the fetch returns that commit, and the steps
\* of the Ok arm and of the next poll's start that follow it, leave the whole
\* Store, the remembered commit, the build counter and the log of appended
\* results as they are, and the Monitor is back at the start of the loop.
C24_UnchangedCommitIsNoOp ==
    [][\A r \in Repos :
         /\ (pc[r] = "get_latest_commit" /\ pc'[r] = "run_ok") =>
               /\ last_commit[r] # None /\ current_commit'[r] = last_commit[r]
               /\ global_state' = global_state
               /\ last_commit'[r] = last_commit[r] /\ build_counter'[r] = build_counter[r]
         /\ (pc[r] \in {"run_ok", "run_ok_reset", "check_and_build"} /\ Steps(r)) =>
               /\ global_state' = global_state /\ appended' = appended
               /\ last_commit'[r] = last_commit[r] /\ build_counter'[r] = build_counter[r]
               /\ pc[r] = "run_ok_reset" => pc'[r] = "check_and_build"]_vars

\* C24 witness: after a build and a failed poll, a poll has observed the
\* remembered commit again and is in the Ok arm; the status is still the
\* Error of the failed poll
C24_Witness ==
    \E r \in Repos :
        /\ pc[r] = "run_ok_reset" /\ current_commit[r] = last_commit[r]
        /\ last_commit[r] # None /\ Len(History(r)) = 1
        /\ Status(r) \in FetchErrorStatuses

\* where the Monitor is while its build is in progress: from the Building
\* status being written to the status of the result being written
BuildInProgressPcs == {"for_cmd", "execute_command", "update_state", "add_build_repo",
                       "add_build_recent", "update_status"}

\* C25: the status of a repository is Building only while its Monitor is
\* between writing Building and writing the status of the result; the Ok arm
\* of the loop ends with a status that is not Building (Idle if it found
\* Building, else what it found), so no iteration without a fetch error ends
\* with Building.
C25_BuildingOnlyWhileBuilding ==
    [][\A r \in Repos :
         /\ (Registered(r)' /\ Status(r)' = "Building...") => pc'[r] \in BuildInProgressPcs
         /\ (pc[r] = "run_ok_reset" /\ Steps(r)) =>
               /\ Status(r)' # "Building..."
               /\ Status(r)' = IF Status(r) = "Building..." THEN "Idle" ELSE Status(r)
               /\ pc'[r] = "check_and_build"]_vars

\* C25 witness: one Monitor has ended the iteration of its build, the status
\* is the build's, while the other repository shows Building with its
\* command running
C25_Witness ==
    \E r, q \in Repos :
        /\ r # q /\ Registered(r) /\ Registered(q)
        /\ pc[r] = "check_and_build" /\ Len(History(r)) = 1
        /\ Status(r) \in {"Passing", "Failed"}
        /\ Status(q) = "Building..." /\ pc[q] = "execute_command"

\* the build numbered n of r for commit h is recorded and its status written
BuildRecorded(r, h, n) ==
    /\ Registered(r) /\ History(r) # << >>
    /\ History(r)[1].id = n /\ History(r)[1].commit_hash = h
    /\ Feed # << >> /\ Feed[1] = History(r)[1]
    /\ Status(r) = ResultStatus(History(r)[1])

\* C26: whenever a poll of r has observed a commit h that is not the one
\* remembered and has started a build for it, then, threads being scheduled,
\* commands returning and the lock being granted, a BuildResult with commit
\* hash h and the number of that build (the counter moves only when a build
\* starts) is appended to history and feed and the status becomes the
\* Passing or Failed of that result.
C26_ChangeLeadsToRecordedBuild ==
    \A r \in Repos : \A h \in Commits :
        (pc[r] = "run_commands" /\ current_commit[r] = h /\ last_commit[r] # h)
          ~> BuildRecorded(r, h, build_counter[r])

\* C26 witness: the second build of a repository, for a commit other than
\* the first one's, is recorded and its status written
C26_Witness ==
    \E r \in Repos :
        /\ pc[r] = "get_current_branch" /\ build_counter[r] = 2
        /\ BuildRecorded(r, current_commit[r], 2)
        /\ History(r)[2].commit_hash # current_commit[r]

\* C27: each list evicts by its own cap only.  A call of add_build for r
\* removes from the feed its last entry if the feed was full and nothing
\* otherwise, whether or not r's history was full; it removes from r's
\* history its last entry if that history was full and nothing otherwise,
\* whether or not the feed was full; and it removes nothing from the history
\* of another repository.
C27_ListsEvictIndependently ==
    [][Called("add_build") =>
          LET r == op'.repo
              feed_lost == Range(Feed) \ Range(Feed')
          IN /\ feed_lost = IF Len(Feed) = RecentBuildsCap
                            THEN {Feed[RecentBuildsCap]} ELSE {}
             /\ \A q \in Repos :
                   Range(History(q)) \ Range(History(q)') =
                       IF q = r /\ Len(History(r)) = RepoBuildsCap
                       THEN {History(r)[RepoBuildsCap]} ELSE {}]_vars

\* C27 witness: the two lists have come apart both ways: a result is in the
\* feed and in no history, and a result is in a history and not in the feed
C27_Witness ==
    /\ \E b \in Range(Feed) : \A q \in Repos : b \notin Range(History(q))
    /\ \E q \in Repos : \E b \in Range(History(q)) : b \notin Range(Feed)

\* the pieces of a transcript that belong to the command cmd, in order
SectionOf(out, cmd) == SelectSeq(out, LAMBDA piece : piece.cmd = cmd)
\* the kinds of the pieces a command's section is made of, given what the
\* command did: a label line first; for a command that ran, its standard
\* output if any, its standard error under its own label if any, a newline
ExpectedKinds(res) ==
    IF res.kind = "Err" THEN <<"exec_error">>
    ELSE <<"header">> \o (IF res.stdout # "" THEN <<"stdout">> ELSE << >>)
           \o (IF res.stderr # "" THEN <<"stderr_label", "stderr">> ELSE << >>)
           \o <<"newline">>

\* C28: the transcript of a build, while it grows and when it is returned in
\* the BuildResult, consists of one section per command attempted so far, in
\* the order the commands were attempted; each section opens with the line
\* that names the command (the header of a command that ran, the "Failed to
\* execute" line of one that could not be spawned) and carries the command's
\* output; commands that were not attempted have no piece in it.
C28_TranscriptSections ==
    \A r \in Repos :
        LET log == cmd_log[r]
            out == all_output[r]
            cmds == RepoConfig[r].commands
        IN /\ TranscriptCommands(out) = [i \in 1..Len(log) |-> log[i].cmd]
           /\ \A i \in 1..Len(log) :
                 LET section == SectionOf(out, log[i].cmd)
                 IN /\ [k \in 1..Len(section) |-> section[k].kind] = ExpectedKinds(log[i].res)
                    /\ \A k \in 1..Len(section) :
                          /\ section[k].kind = "stdout" => section[k].text = log[i].res.stdout
                          /\ section[k].kind = "stderr" => section[k].text = log[i].res.stderr
           /\ \A j \in (Len(log) + 1)..Len(cmds) : SectionOf(out, cmds[j]) = << >>
           /\ result[r] # NoResult => result[r].output = out

\* C28 witness: alpha's first command ran, its second could not be spawned:
\* the returned transcript has the section of the first and the line for the
\* second
C28_Witness ==
    /\ result["r1"] # NoResult /\ Len(cmd_log["r1"]) = 2
    /\ cmd_log["r1"][2].res.kind = "Err"
    /\ Len(SectionOf(result["r1"].output, "check")) = 3
    /\ Len(SectionOf(result["r1"].output, "test")) = 1

\* C29: a step of an API handler, whatever the request and whatever the
\* Monitors are doing, leaves the Store and everything the Monitors hold as
\* it is: it only takes or gives back the lock and forms its reply; and the
\* reply it holds is read from the Store as it is at that moment.
C29_ApiReadOnly ==
    [][/\ api_pc' # api_pc =>
             /\ global_state' = global_state
             /\ monitor_vars' = monitor_vars /\ appended' = appended
             /\ lock' = IF api_pc = "idle" THEN Api ELSE Free
       /\ api_pc' = "reply" =>
             /\ lock' = Api /\ api_req' \in Requests
             /\ api_req'.kind = "builds" =>
                   response'.kind = "builds" /\ response'.builds = Feed'
             /\ api_req'.kind = "repositories" =>
                   /\ response'.kind = "repositories"
                   /\ response'.repositories = {EntryOrAbsent(r)' : r \in {q \in Repos : Registered(q)'}}
             /\ api_req'.kind = "repository" =>
                   IF \E r \in Repos : Registered(r)' /\ RepoConfig[r].name = api_req'.name
                   THEN /\ response'.kind = "repository"
                        /\ response'.repository.repository.name = api_req'.name
                        /\ response'.repository =
                              global_state'.repositories[response'.repository.repository.id]
                   ELSE response' = ErrorReply("Repository not found")]_vars

\* C29 witness: the recent builds are being served, with one build recorded,
\* while a Monitor has a command running
C29_Witness ==
    /\ api_pc = "reply" /\ api_req.kind = "builds"
    /\ response.kind = "builds" /\ Len(response.builds) = 1
    /\ \E r \in Repos : pc[r] = "execute_command" /\ Status(r) = "Building..."

\* where the Monitor is between two builds
BetweenBuildsPcs == {"check_and_build", "get_latest_commit", "run_ok", "run_ok_reset",
                     "run_err", "run_err_status"}

\* C30: the step in which the branch fetch after a build fails leaves the
\* stored branch and last-commit as they were, while the Monitor remembers
\* the commit it has just built; so the stored last-commit then differs from
\* the commit hash of the newest result in the history.  Between builds the
\* Monitor always remembers the commit of its newest result, and a build is
\* started only for a commit other than that one: the commit whose branch
\* fetch failed is not built again while it stays the latest.
C30_BranchFailureKeepsStoreRemembersCommit ==
    [][\A r \in Repos :
         /\ (pc[r] = "get_current_branch_wait" /\ Steps(r)
               /\ RepoInfo(r)'.last_commit # current_commit[r]) =>
               /\ RepoInfo(r)' = RepoInfo(r)
               /\ last_commit'[r] = current_commit[r]
               /\ History(r)'[1].commit_hash = last_commit'[r]
               /\ History(r)'[1].commit_hash # RepoInfo(r)'.last_commit
         /\ (pc'[r] \in BetweenBuildsPcs /\ Registered(r)' /\ History(r)' # << >>) =>
               History(r)'[1].commit_hash = last_commit'[r]
         /\ (BuildTriggered(r) /\ History(r) # << >>) =>
               current_commit'[r] # History(r)[1].commit_hash]_vars

\* C30 witness: the branch fetch of the first build failed, so the Store
\* still says unknown/unknown; a later poll has observed the same commit
\* again and builds nothing
C30_Witness ==
    \E r \in Repos :
        /\ pc[r] = "run_ok" /\ build_counter[r] = 1 /\ Len(History(r)) = 1
        /\ RepoInfo(r).last_commit = "unknown" /\ RepoInfo(r).branch = "unknown"
        /\ current_commit[r] = History(r)[1].commit_hash
        /\ Status(r) \in FetchErrorStatuses

\* C31: whenever the lock is free, the status of a repository and the newest
\* entry of its history agree: under the status Building the result of the
\* build in progress is not in the history yet (its front is the result of
\* the build before, if any), under Passing the newest result succeeded, and
\* under Failed it did not.
C31_StatusAgreesWithNewestResult ==
    lock = Free =>
        \A r \in Repos : Registered(r) =>
            /\ Status(r) = "Building..." =>
                  /\ \A i \in DOMAIN History(r) : History(r)[i].id < build_counter[r]
                  /\ Len(History(r)) = Min(RepoBuildsCap, build_counter[r] - 1)
            /\ Status(r) = "Passing" => History(r) # << >> /\ History(r)[1].success
            /\ Status(r) = "Failed" => History(r) # << >> /\ ~History(r)[1].success

\* C31 witness: the lock is free; one repository is Failed and its newest
\* result is a failed one, while the other is still Building with the result
\* of its build ready but not yet appended
C31_Witness ==
    /\ lock = Free
    /\ \E r, q \in Repos :
        /\ r # q /\ Registered(r) /\ Registered(q)
        /\ Status(r) = "Failed" /\ Len(History(r)) = 1 /\ ~History(r)[1].success
        /\ Status(q) = "Building..." /\ pc[q] = "update_state"
        /\ result[q].id = 1 /\ result[q].success /\ History(q) = << >>

\* the first build of r has started: the Building status of build number 1
\* has been written
FirstBuildStarted(r) ==
    \/ build_counter[r] > 1
    \/ build_counter[r] = 1 /\ pc[r] \notin {"run_commands", "run_commands_building"}

\* C32: once the first build of a repository has started its status is never
\* Idle again: no step takes the status from anything but Starting to Idle,
\* and the Ok arm of the loop always finds Passing, Failed or the Error of an
\* earlier failed poll, so its branch that resets Building to Idle is never
\* taken and the Ok arm leaves the Store as it is.
C32_NeverIdleAfterFirstBuild ==
    [][\A r \in Repos :
         /\ (FirstBuildStarted(r)' /\ Registered(r)') => Status(r)' # "Idle"
         /\ (Registered(r) /\ Status(r)' = "Idle" /\ Status(r) # "Idle") =>
               Status(r) = "Starting..." /\ pc[r] = "run_idle"
         /\ (pc[r] = "run_ok_reset" /\ Steps(r)) =>
               /\ Status(r) \in {"Passing", "Failed"} \cup FetchErrorStatuses
               /\ global_state' = global_state]_vars

\* C32 witness: a Monitor has gone through the Ok arm after its second
\* build and is at the start of the loop again; the status is the one the
\* second build left
C32_Witness ==
    \E r \in Repos :
        /\ pc[r] = "check_and_build" /\ current_commit[r] = None
        /\ build_counter[r] = 2 /\ Len(History(r)) = 2
        /\ Status(r) = "Passing" /\ ~History(r)[2].success

\* C33: an Error status is cleared only by a later build.  The only step
\* that replaces an Error status by another status is the Building write of
\* the repository's own Monitor at the start of a build; a successful poll
\* that observes the remembered commit, and the Ok arm that follows it,
\* leave the Error status in place.
C33_ErrorClearedOnlyByBuild ==
    [][\A r \in Repos :
         /\ (Registered(r) /\ Status(r) \in FetchErrorStatuses
               /\ Status(r)' \notin FetchErrorStatuses) =>
               /\ pc[r] = "run_commands_building" /\ pc'[r] # pc[r]
               /\ Status(r)' = "Building..."
         /\ (Registered(r) /\ Status(r) \in FetchErrorStatuses
               /\ \/ pc[r] = "get_latest_commit" /\ pc'[r] = "run_ok"
                  \/ pc[r] \in {"run_ok", "run_ok_reset"} /\ Steps(r)) =>
               /\ Status(r)' = Status(r)
               /\ pc[r] = "get_latest_commit" => current_commit'[r] = last_commit[r]]_vars

\* C33 witness: after a build whose branch fetch succeeded and a failed
\* poll, a poll has returned the remembered commit; check_and_build has
\* returned Ok and the status is still the Error
C33_Witness ==
    \E r \in Repos :
        /\ pc[r] = "run_ok" /\ lock = Free
        /\ last_commit[r] # None /\ current_commit[r] = last_commit[r]
        /\ RepoInfo(r).last_commit = last_commit[r]
        /\ History(r) # << >> /\ History(r)[1].success
        /\ Status(r) \in FetchErrorStatuses

\* a step of r on the path of a failed commit fetch: the fetch returning the
\* error, the Err arm taking the lock, the Err arm writing the status
FetchFailureStep(r) ==
    /\ Steps(r)
    /\ \/ pc[r] = "get_latest_commit" /\ pc'[r] = "run_err"
       \/ pc[r] \in {"run_err", "run_err_status"}

\* the Store with the status of r replaced
WithStatus(state, r, status) ==
    [state EXCEPT !.repositories[r].current_status = status]

\* C34: a failed commit fetch changes nothing but the status of its
\* repository: over the steps of the failed poll the Store differs at most in
\* that status, and every Monitor's remembered commit and build counter and
\* the log of appended results stay as they are.  So a build that starts
\* while the status is an Error is the build of a commit other than the
\* remembered one and is numbered one more than the results the Monitor has
\* appended, and no commit is built twice in a row: the results a Monitor
\* appends are numbered 1, 2, ... and neighbours have different commits.
C34_FetchFailureFrame ==
    [][\A r \in Repos :
         /\ FetchFailureStep(r) =>
               /\ global_state' = WithStatus(global_state, r, Status(r)')
               /\ last_commit' = last_commit /\ build_counter' = build_counter
               /\ appended' = appended
         /\ (BuildTriggered(r) /\ Status(r) \in FetchErrorStatuses) =>
               /\ current_commit'[r] # last_commit[r]
               /\ build_counter'[r] = Len(AppendedOf(r)) + 1
         /\ LET mine == SelectSeq(appended', LAMBDA b : b.repository_id = r)
            IN /\ \A i \in DOMAIN mine : mine[i].id = i
               /\ \A i \in 1..(Len(mine) - 1) :
                     mine[i].commit_hash # mine[i + 1].commit_hash]_vars

\* C34 witness: after its first build a Monitor had a failed poll; the next
\* poll observed another commit and the second build is about to start,
\* with the Error status still shown
C34_Witness ==
    \E r \in Repos :
        /\ pc[r] = "run_commands" /\ build_counter[r] = 2
        /\ Len(AppendedOf(r)) = 1 /\ Len(History(r)) = 1
        /\ last_commit[r] = History(r)[1].commit_hash
        /\ current_commit[r] # last_commit[r]
        /\ Status(r) \in FetchErrorStatuses

\* C35: every build attempt yields exactly one appended result.  In every
\* state in which the lock is free and the Monitor of a repository has no
\* build in flight, the Monitor has appended as many results as its build
\* counter says, the newest entry of the history carries the build counter
\* as its sequence number, the sequence numbers go down by one from each
\* entry to the next, and the history holds min(50, build counter) entries.
C35_HistoryMatchesBuildCounter ==
    lock = Free =>
        \A r \in Repos : (Registered(r) /\ pc[r] \notin InFlightPcs) =>
            /\ Len(AppendedOf(r)) = build_counter[r]
            /\ History(r) # << >> => History(r)[1].id = build_counter[r]
            /\ \A i \in 1..(Len(History(r)) - 1) :
                  History(r)[i].id = History(r)[i + 1].id + 1
            /\ Len(History(r)) = Min(RepoBuildsCap, build_counter[r])

\* C35 witness: a Monitor has made its 51st build and is polling again: its
\* history is full, the newest entry is number 51 and the oldest number 2;
\* the other repository has not been built
C35_Witness ==
    /\ lock = Free
    /\ \E r, q \in Repos :
        /\ r # q /\ pc[r] = "get_latest_commit"
        /\ build_counter[r] = RepoBuildsCap + 1 /\ Len(History(r)) = RepoBuildsCap
        /\ History(r)[1].id = RepoBuildsCap + 1 /\ History(r)[RepoBuildsCap].id = 2
        /\ Registered(q) /\ build_counter[q] = 0 /\ History(q) = << >>

\* where a Monitor is when its next step is `global_state.lock()`
AcquirePcs == {"new", "run", "run_commands", "update_state", "run_ok", "run_err"}

\* where a Monitor is inside one of its critical sections
CriticalPcs == {"new_register", "run_idle", "run_commands_building", "add_build_repo",
                "add_build_recent", "update_status", "get_current_branch",
                "get_current_branch_wait", "run_ok_reset", "run_err_status"}

\* C36: nobody asks for the lock while holding it, every critical section
\* gives it back, and nothing deadlocks.  A Monitor holds the lock exactly
\* while it is inside one of its critical sections and the API handler
\* exactly while it forms its reply, so whoever is about to take the lock
\* does not hold it.  Whoever holds the lock can take its next step (an
\* external process it waits for returns), and while the lock is free
\* every Monitor and the API handler can take a step: no state is a deadlock.
C36_NoSelfDeadlockNoDeadlock ==
    /\ \A r \in Repos :
          /\ lock = r <=> pc[r] \in CriticalPcs
          /\ pc[r] \in AcquirePcs => lock # r
          /\ pc[r] \in AcquirePcs \cup CriticalPcs
                \cup {"check_and_build", "get_latest_commit", "for_cmd", "execute_command"}
          /\ (lock = r \/ lock = Free \/ pc[r] \notin AcquirePcs) => ENABLED Monitor(r)
    /\ lock = Api <=> api_pc = "reply"
    /\ api_pc = "idle" => lock # Api
    /\ lock = Api => ENABLED api_return
    /\ lock = Free => ENABLED ApiHandler
    /\ lock \in Repos \cup {Api, Free}
    /\ ENABLED NextApi

\* C36 witness: a Monitor holds the lock while its branch fetch runs, the
\* other Monitor has a result ready and waits for the lock, and so does a
\* request to the API
C36_Witness ==
    \E r, q \in Repos :
        /\ r # q /\ lock = r /\ pc[r] = "get_current_branch_wait" /\ ext[r] = "git branch"
        /\ pc[q] = "update_state" /\ result[q] # NoResult
        /\ api_pc = "idle" /\ ~ENABLED ApiHandler /\ ~ENABLED Monitor(q)

====
